---------------------------- MODULE Spec2Model ----------------------------
(***************************************************************************)
(* A model of YouTubeVideoProcessor (experiments/experiment.ipynb): the    *)
(* session object with its four path fields, the filesystem it writes to,  *)
(* the provider (pytube) and the decoder (ffmpeg) as nondeterministic      *)
(* environments, and the three operations download_video, extract_audio    *)
(* and extract_frames.                                                     *)
(*                                                                         *)
(* A path is a sequence of components, a component is a sequence of        *)
(* characters; the fixed names of the program ("audio", "video.mp4", ...)  *)
(* are one-token components.  None and the empty string are both <<>>      *)
(* (the code tests them with "not x").                                     *)
(***************************************************************************)
EXTENDS Integers, Sequences, FiniteSets, TLC

VARIABLES sess, dirs, files, task, last, hist

vars == <<sess, dirs, files, task, last, hist>>

-----------------------------------------------------------------------------
(* Bounds of the model *)

\* download_video is called at most this many times in all
MaxDownloads == 2

\* _sanitize_filename is applied to names of at most this many characters
MaxLen == 3

\* first line of the notebook cell that defines the class: the line number
\* CineNotesException reports is relative to the cell
CellFirstLine == 33

-----------------------------------------------------------------------------
(* Values *)

None == <<>>

Sessions == {"s1", "s2"}

Ops == {"extract_audio", "extract_frames"}

\* the characters titles are made of: alphanumeric, the four other
\* characters the sanitizer keeps, and characters it removes
Alnum == {"a", "b", "7"}

Kept == {" ", ".", "_", "-"}

\* titles the provider may resolve a URL to
Titles ==
  { <<"a">>, <<" ", "a", "!">>, <<":">>, <<".", ".">> }

\* the number of frames the video of each title decodes to
FrameCount(t) == IF t = <<"a">> THEN 2 ELSE 1

\* the process's working directory, and the default output_base_dir
\* argument, "./output_videos"
Cwd == << <<"w">> >>

DefaultBaseDir == << <<".">>, <<"output_videos">> >>

VideoName == <<"video.mp4">>

AudioSub == <<"audio">>

FramesSub == <<"frames">>

DefaultAudioName == <<"audio.wav">>

DefaultPrefix == "frame_"

DefaultFormat == "jpg"

\* the character "\0", and a file name that holds it
Nul == "NUL"

NulAudioName == <<"audio", Nul, ".wav">>

\* the audio_filename arguments: the default, None (os.path.join refuses
\* it) and a name with an embedded null character (subprocess refuses it)
AudioNames == {DefaultAudioName, None, NulAudioName}

Prefixes == {DefaultPrefix}

Formats == {DefaultFormat}

-----------------------------------------------------------------------------
(* os.path *)

\* os.path.join(p, c) for a relative component c: a p that ends with a
\* separator (trailing empty component) takes c in its place
Join(p, c) ==
  IF Len(p) > 0 /\ p[Len(p)] = <<>>
    THEN IF c = <<>> THEN p ELSE SubSeq(p, 1, Len(p) - 1) \o <<c>>
    ELSE Append(p, c)

RECURSIVE NormAcc(_, _)
NormAcc(acc, p) ==
  IF p = <<>> THEN acc
  ELSE LET c == Head(p) IN
    IF c = <<>> \/ c = <<".">> THEN NormAcc(acc, Tail(p))
    ELSE IF c = <<".", ".">>
      THEN NormAcc(IF acc = <<>> THEN acc ELSE SubSeq(acc, 1, Len(acc) - 1), Tail(p))
      ELSE NormAcc(Append(acc, c), Tail(p))

\* the file or directory a path string names (os.path.normpath)
Norm(p) == NormAcc(<<>>, p)

\* os.path.abspath of a relative path
Abspath(p) == Norm(Cwd \o p)

\* the directory and all its ancestors
Ancestors(p) == { SubSeq(p, 1, k) : k \in 1..Len(p) }

-----------------------------------------------------------------------------
(* _sanitize_filename *)

IsKept(c) == c \in Alnum \/ c \in Kept

\* the characters str.strip() removes from both ends
Whitespace == {" ", "\t"}

RECURSIVE LStrip(_)
LStrip(x) == IF x # <<>> /\ Head(x) \in Whitespace THEN LStrip(Tail(x)) ELSE x

RECURSIVE RStrip(_)
RStrip(x) ==
  IF x # <<>> /\ x[Len(x)] \in Whitespace
    THEN RStrip(SubSeq(x, 1, Len(x) - 1))
    ELSE x

Strip(x) == RStrip(LStrip(x))

\* a sanitizer without the final strip()
_sanitize_filename_unstripped(name) == SelectSeq(name, IsKept)

\* a sanitizer that strips before it removes characters
_sanitize_filename_strips_first(name) == SelectSeq(Strip(name), IsKept)

_sanitize_filename(name) == Strip(SelectSeq(name, IsKept))


-----------------------------------------------------------------------------
(* Exceptions *)

NoExc == [type |-> "", message |-> "", lineno |-> 0, context |-> ""]

\* raise ValueError("No video has been downloaded. Call download_video() first.")
PreconditionError(line) ==
  [type |-> "ValueError",
   message |-> "No video has been downloaded. Call download_video() first.",
   lineno |-> line - CellFirstLine + 1,
   context |-> ""]

\* subprocess.run raises ValueError for a command-line argument that holds
\* a null character, before it looks for the executable; "except ValueError
\* as ve: raise ve" passes it on as it is
HasNul(c) == \E i \in 1..Len(c) : c[i] = Nul

EmbeddedNull(line) ==
  [type |-> "ValueError",
   message |-> "embedded null byte",
   lineno |-> line - CellFirstLine + 1,
   context |-> ""]

\* raise CineNotesException(message, sys) inside "except Exception": the
\* exception reports the message and the line of the statement that failed,
\* and Python chains the exception being handled as its __context__
CineNotesException(message, line, cause) ==
  [type |-> "CineNotesException",
   message |-> message,
   lineno |-> line - CellFirstLine + 1,
   context |-> cause]

-----------------------------------------------------------------------------
(* The filesystem: dirs is the set of directories, files maps each file    *)
(* to its content; both are keyed by normalised paths.                     *)

\* a video file is the video of a title, with its frames; a decoded file
\* is whole or truncated
Video(title) == [kind |-> "video", title |-> title, n |-> FrameCount(title), whole |-> TRUE]

Truncated(c) == [c EXCEPT !.whole = FALSE]

Decoded(kind, whole) == [kind |-> kind, title |-> <<>>, n |-> 0, whole |-> whole]

WriteFile(F, p, c) ==
  [q \in (DOMAIN F) \cup {p} |-> IF q = p THEN c ELSE F[q]]

\* a makedirs that creates nothing
makedirs_noop(D, F, path, exist_ok) == [ok |-> TRUE, dirs |-> D]

\* a makedirs without exist_ok=True
makedirs_strict(D, F, path, exist_ok) ==
  LET p == Norm(path) IN
    IF p \in D
      THEN [ok |-> FALSE, dirs |-> D]
      ELSE [ok |-> TRUE, dirs |-> D \cup Ancestors(p)]

\* os.makedirs(path, exist_ok): [ok, dirs]. It fails when a component of
\* the path is a file, and, without exist_ok, when the directory exists.
makedirs(D, F, path, exist_ok) ==
  LET p == Norm(path) IN
    IF \/ Ancestors(p) \cap DOMAIN F # {}
       \/ (~exist_ok /\ p \in D)
      THEN [ok |-> FALSE, dirs |-> D]
      ELSE [ok |-> TRUE, dirs |-> D \cup Ancestors(p)]

\* a download that returns the path without having persisted the file
stream_download_unsaved(D, F, output_path, filename, video, env) ==
  IF env \in {"download", "download_trunc"}
    THEN [ok |-> FALSE, files |-> F, path |-> None, attempts |-> 1]
    ELSE [ok |-> TRUE, files |-> F, path |-> Join(output_path, filename),
          attempts |-> 1]

\* a download that does not replace a file that exists
stream_download_exclusive(D, F, output_path, filename, video, env) ==
  LET path == Join(output_path, filename)
      p == Norm(path)
      writable == Norm(output_path) \in D /\ p \notin D /\ p \notin DOMAIN F
  IN  IF writable /\ env \notin {"download", "download_trunc"}
        THEN [ok |-> TRUE, files |-> WriteFile(F, p, video), path |-> path,
              attempts |-> 1]
        ELSE [ok |-> FALSE, files |-> F, path |-> None, attempts |-> 1]

\* a download that makes a second transfer when the first one fails
stream_download_retries(D, F, output_path, filename, video, env) ==
  LET path == Join(output_path, filename)
      p == Norm(path)
      writable == Norm(output_path) \in D /\ p \notin D
  IN  IF writable /\ env \notin {"download", "download_trunc"}
        THEN [ok |-> TRUE, files |-> WriteFile(F, p, video), path |-> path,
              attempts |-> 1]
        ELSE [ok |-> FALSE,
              files |-> IF writable /\ env = "download_trunc"
                          THEN WriteFile(F, p, Truncated(video))
                          ELSE F,
              path |-> None,
              attempts |-> 2]

\* pytube's Stream.download(output_path, filename): [ok, files, path,
\* attempts]. It makes one transfer, writes the whole file and returns
\* os.path.join(output_path, filename); a failed transfer (env "download",
\* "download_trunc") writes nothing or leaves a truncated file.
stream_download(D, F, output_path, filename, video, env) ==
  LET path == Join(output_path, filename)
      p == Norm(path)
      writable == Norm(output_path) \in D /\ p \notin D
  IN  IF writable /\ env \notin {"download", "download_trunc"}
        THEN [ok |-> TRUE, files |-> WriteFile(F, p, video), path |-> path,
              attempts |-> 1]
        ELSE [ok |-> FALSE,
              files |-> IF writable /\ env = "download_trunc"
                          THEN WriteFile(F, p, Truncated(video))
                          ELSE F,
              path |-> None,
              attempts |-> 1]

-----------------------------------------------------------------------------
(* download_video *)

\* where the environment makes a download_video call fail, in source order;
\* no_stream: get_highest_resolution() finds no progressive stream and
\* returns None, so that line 102 fails on stream.download
FailPoints ==
  {"YouTube", "streams", "no_stream", "title", "makedirs_video", "download",
   "download_trunc", "makedirs_audio", "makedirs_frames", "none"}

\* the exception each failing statement raises
Cause ==
  [YouTube |-> "RegexMatchError", streams |-> "HTTPError",
   no_stream |-> "AttributeError", title |-> "PytubeError", makedirs_video |-> "OSError",
   download |-> "URLError", download_trunc |-> "URLError",
   makedirs_audio |-> "OSError",
   makedirs_frames |-> "OSError"]

\* a handler that wraps pytube's exceptions only: the others escape
DownloadFailedPytubeOnly(line, cause) ==
  IF cause \in {"RegexMatchError", "PytubeError"}
    THEN CineNotesException("Failed to download video", line, cause)
    ELSE [type |-> cause, message |-> "", lineno |-> line - CellFirstLine + 1,
          context |-> ""]

\* a handler with an error of its own for os.makedirs failures
DownloadFailedFilesystem(line, cause) ==
  IF cause = "OSError"
    THEN [type |-> "FilesystemError", message |-> "Failed to create directory",
          lineno |-> line - CellFirstLine + 1, context |-> cause]
    ELSE CineNotesException("Failed to download video", line, cause)

\* lines 111-112: "except Exception" wraps whatever the try block raised
DownloadFailed(line, cause) ==
  CineNotesException("Failed to download video", line, cause)

\* the external attempts of a call: resolutions of the URL (line 94),
\* transfers (line 102), decoder launches (subprocess.run)
Tries(resolve, download, launch) ==
  [resolve |-> resolve, download |-> download, launch |-> launch]

\* The method body, lines 92-112: the session fields, the filesystem, the
\* outcome (exc, ret) and the external attempts made when the environment
\* fails at fp (or nowhere) and the provider resolves title t.
download_video(self, D, F, fp, t) ==
  LET video_title == _sanitize_filename(t)
      video_dir == Join(self.output_base_dir, video_title)
      self1 == [self EXCEPT !.video_dir = video_dir]
      mk1 == IF fp = "makedirs_video"
               THEN [ok |-> FALSE, dirs |-> D]
               ELSE makedirs(D, F, video_dir, TRUE)
      dl == IF fp = "no_stream"
              THEN [ok |-> FALSE, files |-> F, path |-> None, attempts |-> 0]
              ELSE stream_download(mk1.dirs, F, video_dir, VideoName,
                                   Video(t), fp)
      self2 == [self1 EXCEPT !.video_filename = dl.path]
      self3 == [self2 EXCEPT !.audio_dir = Join(video_dir, AudioSub),
                             !.frames_dir = Join(video_dir, FramesSub)]
      mk2 == IF fp = "makedirs_audio"
               THEN [ok |-> FALSE, dirs |-> mk1.dirs]
               ELSE makedirs(mk1.dirs, dl.files, self3.audio_dir, TRUE)
      mk3 == IF fp = "makedirs_frames"
               THEN [ok |-> FALSE, dirs |-> mk2.dirs]
               ELSE makedirs(mk2.dirs, dl.files, self3.frames_dir, TRUE)
      Out(s, d, f, e, r, n) ==
        [self |-> s, dirs |-> d, files |-> f, exc |-> e, ret |-> r,
         tries |-> Tries(1, n, 0)]
  IN  IF fp = "YouTube"
        THEN Out(self, D, F, DownloadFailed(94, Cause[fp]), None, 0)
      ELSE IF fp = "streams"
        THEN Out(self, D, F, DownloadFailed(96, Cause[fp]), None, 0)
      ELSE IF fp = "title"
        THEN Out(self, D, F, DownloadFailed(98, Cause[fp]), None, 0)
      ELSE IF ~mk1.ok
        THEN Out(self1, D, F, DownloadFailed(100, "OSError"), None, 0)
      ELSE IF ~dl.ok
        THEN Out(self1, mk1.dirs, dl.files,
                 DownloadFailed(102, IF fp \in {"no_stream", "download_trunc"}
                                       THEN Cause[fp] ELSE Cause.download),
                 None, dl.attempts)
      ELSE IF ~mk2.ok
        THEN Out(self3, mk1.dirs, dl.files, DownloadFailed(107, "OSError"), None,
                 dl.attempts)
      ELSE IF ~mk3.ok
        THEN Out(self3, mk2.dirs, dl.files, DownloadFailed(108, "OSError"), None,
                 dl.attempts)
      ELSE Out(self3, mk3.dirs, dl.files, NoExc, self3.video_filename,
               dl.attempts)

-----------------------------------------------------------------------------
(* The decoder (ffmpeg) *)

\* "%05d" % i
Pad5(i) ==
  IF i < 10 THEN "0000" \o ToString(i)
  ELSE IF i < 100 THEN "000" \o ToString(i)
  ELSE "00" \o ToString(i)

\* f"{image_prefix}%05d.{image_format}" expanded by the decoder for frame i
FrameName(image_prefix, image_format, i) ==
  << image_prefix \o Pad5(i) \o "." \o image_format >>

Parent(p) == SubSeq(p, 1, Len(p) - 1)

\* can the decoder read its input and create its output
Decodable(D, F, input, out_dir) ==
  Norm(input) \in DOMAIN F /\ Norm(out_dir) \in D

RECURSIVE WriteFrames(_, _, _, _, _)
WriteFrames(F, frames_dir, image_prefix, image_format, k) ==
  IF k = 0 THEN F
  ELSE WriteFile(
         WriteFrames(F, frames_dir, image_prefix, image_format, k - 1),
         Norm(Join(frames_dir, FrameName(image_prefix, image_format, k))),
         Decoded("frame", TRUE))

\* how a launched decoder ends: exit status 0, or non-zero with nothing
\* written ("exit_1") or with part of the output written ("exit_1_trunc")
Exits == {"exit_0", "exit_1", "exit_1_trunc"}

\* a decoder run without -y: it does not overwrite
ffmpeg_audio_keeps(D, F, input, audio_path, exit) ==
  IF /\ Decodable(D, F, input, Parent(Norm(audio_path)))
     /\ Norm(audio_path) \notin DOMAIN F
     /\ exit = "exit_0"
    THEN [status |-> 0,
          files |-> WriteFile(F, Norm(audio_path), Decoded("audio", TRUE))]
    ELSE [status |-> 1, files |-> F]

\* ffmpeg -i input -vn -acodec pcm_s16le -ar 44100 -ac 2 audio_path -y:
\* [status, files]. Exit 0 needs a readable input and an output directory
\* and writes the whole file, overwriting.
ffmpeg_audio(D, F, input, audio_path, exit) ==
  LET can == Decodable(D, F, input, Parent(Norm(audio_path))) IN
    IF can /\ exit = "exit_0"
      THEN [status |-> 0,
            files |-> WriteFile(F, Norm(audio_path), Decoded("audio", TRUE))]
      ELSE [status |-> 1,
            files |-> IF can /\ exit = "exit_1_trunc"
                        THEN WriteFile(F, Norm(audio_path), Decoded("audio", FALSE))
                        ELSE F]

\* ffmpeg -i input frames_dir/prefix%05d.format -y: [status, files]. Exit 0
\* writes one file per decoded frame, 1..n; a failing run has written none
\* of them or all but the last. Files it does not write are left alone.
ffmpeg_frames(D, F, input, frames_dir, image_prefix, image_format, exit) ==
  LET can == Decodable(D, F, input, frames_dir)
      video == F[Norm(input)]
      W(m) == WriteFrames(F, frames_dir, image_prefix, image_format, m)
  IN  IF can /\ exit = "exit_0"
        THEN [status |-> 0, files |-> W(video.n)]
        ELSE [status |-> 1,
              files |-> IF can /\ exit = "exit_1_trunc" THEN W(video.n - 1) ELSE F]

-----------------------------------------------------------------------------
(* extract_audio and extract_frames up to subprocess.run                   *)

\* runs: the calls of subprocess.run, one if the call got that far
Launch(exc, launched, cmd) ==
  [exc |-> exc, launched |-> launched, cmd |-> cmd,
   runs |-> IF launched \/ exc.context = "FileNotFoundError" THEN 1 ELSE 0]

\* an extract_audio that writes into the frames directory
extract_audio_in_frames(self, audio_filename, tool) ==
  IF self.video_filename = None
    THEN Launch(PreconditionError(130), FALSE, None)
  ELSE IF self.audio_dir = None \/ audio_filename = None
    THEN Launch(CineNotesException("Failed to extract audio", 132, "TypeError"),
                FALSE, None)
  ELSE IF HasNul(audio_filename)
    THEN Launch(EmbeddedNull(146), FALSE, None)
  ELSE IF ~tool
    THEN Launch(CineNotesException("Failed to extract audio", 146,
                                   "FileNotFoundError"), FALSE, None)
  ELSE Launch(NoExc, TRUE, Join(self.frames_dir, audio_filename))

\* an extract_audio with an error of its own for a missing decoder
extract_audio_tool_error(self, audio_filename, tool) ==
  IF self.video_filename = None
    THEN Launch(PreconditionError(130), FALSE, None)
  ELSE IF self.audio_dir = None \/ audio_filename = None
    THEN Launch(CineNotesException("Failed to extract audio", 132, "TypeError"),
                FALSE, None)
  ELSE IF HasNul(audio_filename)
    THEN Launch(EmbeddedNull(146), FALSE, None)
  ELSE IF ~tool
    THEN Launch([type |-> "ToolNotFoundError", message |-> "ffmpeg not found",
                 lineno |-> 146 - CellFirstLine + 1,
                 context |-> "FileNotFoundError"], FALSE, None)
  ELSE Launch(NoExc, TRUE, Join(self.audio_dir, audio_filename))

\* an extract_audio whose precondition tests video_dir
extract_audio_tests_dir(self, audio_filename, tool) ==
  IF self.video_dir = None
    THEN Launch(PreconditionError(130), FALSE, None)
  ELSE IF self.audio_dir = None \/ audio_filename = None
    THEN Launch(CineNotesException("Failed to extract audio", 132, "TypeError"),
                FALSE, None)
  ELSE IF HasNul(audio_filename)
    THEN Launch(EmbeddedNull(146), FALSE, None)
  ELSE IF ~tool
    THEN Launch(CineNotesException("Failed to extract audio", 146,
                                   "FileNotFoundError"), FALSE, None)
  ELSE Launch(NoExc, TRUE, Join(self.audio_dir, audio_filename))

\* lines 128-146: the precondition, the command line, the launch;
\* tool: the ffmpeg executable is on the host
extract_audio(self, audio_filename, tool) ==
  IF self.video_filename = None
    THEN Launch(PreconditionError(130), FALSE, None)
  ELSE IF self.audio_dir = None \/ audio_filename = None
    THEN Launch(CineNotesException("Failed to extract audio", 132, "TypeError"),
                FALSE, None)
  ELSE IF HasNul(audio_filename)
    THEN Launch(EmbeddedNull(146), FALSE, None)
  ELSE IF ~tool
    THEN Launch(CineNotesException("Failed to extract audio", 146,
                                   "FileNotFoundError"), FALSE, None)
  ELSE Launch(NoExc, TRUE, Join(self.audio_dir, audio_filename))

\* lines 169-183
extract_frames(self, image_prefix, image_format, tool) ==
  IF self.video_filename = None
    THEN Launch(PreconditionError(171), FALSE, None)
  ELSE IF self.frames_dir = None
    THEN Launch(CineNotesException("Failed to extract frames", 174, "TypeError"),
                FALSE, None)
  ELSE IF ~tool
    THEN Launch(CineNotesException("Failed to extract frames", 183,
                                   "FileNotFoundError"), FALSE, None)
  ELSE Launch(NoExc, TRUE, self.frames_dir)

\* a subprocess.run without check=True: the exit status is not looked at
audio_result_unchecked(status, audio_path) ==
  [exc |-> NoExc, ret |-> audio_path]

\* an extract_audio that returns the audio directory
audio_result_dir(status, audio_path) ==
  IF status = 0
    THEN [exc |-> NoExc, ret |-> Parent(audio_path)]
    ELSE [exc |-> CineNotesException("Failed to extract audio", 146,
                                     "CalledProcessError"),
          ret |-> None]

\* lines 146-152: check=True turns a non-zero exit into CalledProcessError
audio_result(status, audio_path) ==
  IF status = 0
    THEN [exc |-> NoExc, ret |-> audio_path]
    ELSE [exc |-> CineNotesException("Failed to extract audio", 146,
                                     "CalledProcessError"),
          ret |-> None]

\* lines 183-189
frames_result(status, frames_dir) ==
  IF status = 0
    THEN [exc |-> NoExc, ret |-> frames_dir]
    ELSE [exc |-> CineNotesException("Failed to extract frames", 183,
                                     "CalledProcessError"),
          ret |-> None]

-----------------------------------------------------------------------------
(* State                                                                   *)
(*   sess[s]   the fields of session s                                     *)
(*   dirs, files   the filesystem                                          *)
(*   task[s][op]   the extraction call op of s that is blocked in          *)
(*                 subprocess.run, if any, with its command line           *)
(*   last      the call that ended most recently: who, what, with which    *)
(*             arguments and environment, the fields at its entry, what    *)
(*             it raised or returned, whether it launched the decoder,     *)
(*             what it changed on disk                                     *)
(*   hist      history: the number of download_video calls so far, the     *)
(*             sessions on which a download_video call has returned, and   *)
(*             the title of the last such call of each                     *)
(***************************************************************************)

UrlOf == [s1 |-> "https://www.youtube.com/watch?v=1",
          s2 |-> "https://www.youtube.com/watch?v=2"]

\* lines 68-78
__init__(youtube_url, output_base_dir) ==
  [youtube_url |-> youtube_url,
   output_base_dir |-> Abspath(output_base_dir),
   video_filename |-> None,
   video_dir |-> None,
   audio_dir |-> None,
   frames_dir |-> None]

Idle == [pc |-> "idle", input |-> None, cmd |-> None, arg |-> <<>>]

Running(input, cmd, arg) ==
  [pc |-> "running", input |-> input, cmd |-> cmd, arg |-> arg]

NoCall ==
  [sess |-> "", op |-> "", arg |-> <<>>, env |-> "", pre |-> __init__("", <<>>),
   exc |-> NoExc, ret |-> None, launched |-> FALSE, wrote |-> {},
   again |-> FALSE, tries |-> Tries(0, 0, 0)]

\* the directories a call created and the files it created or changed
Wrote(D, F, D2, F2) ==
  (D2 \ D) \cup {p \in DOMAIN F2 : p \notin DOMAIN F \/ F2[p] # F[p]}

\* the record of a call of s that ends: pre are the fields of s at its
\* entry; again: the call before it was the same call and returned
Ended(s, op, arg, env, exc, ret, launched, wrote) ==
  [sess |-> s, op |-> op, arg |-> arg, env |-> env, pre |-> sess[s],
   exc |-> exc, ret |-> ret, launched |-> launched, wrote |-> wrote,
   again |-> (last.sess = s /\ last.op = op /\ last.arg = arg /\ last.exc = NoExc),
   tries |-> Tries(0, 0, 0)]

\* the record e with the external attempts the call made
Tried(e, tries) == [e EXCEPT !.tries = tries]

\* two sessions, each made with the default output_base_dir: the
\* constructor has created the base directory
Init ==
  /\ sess = [s \in Sessions |-> __init__(UrlOf[s], DefaultBaseDir)]
  /\ dirs = makedirs({}, <<>>, Abspath(DefaultBaseDir), TRUE).dirs
  /\ files = <<>>
  /\ task = [s \in Sessions |-> [op \in Ops |-> Idle]]
  /\ last = NoCall
  /\ hist = [ndl |-> 0, acquired |-> {}, title |-> [s \in Sessions |-> <<>>]]

\* no extraction call is in progress on a session of S
Quiet(S) == \A s \in S, op \in Ops : task[s][op].pc = "idle"

\* the title a download_video call got from the provider, if it got one
Resolved(fp, t) == IF fp \in {"YouTube", "streams", "title"} THEN <<>> ELSE <<t>>

\* the two sessions differ in youtube_url only, which nothing reads after
\* line 94: the first download_video call of a run is taken to be on s1
FirstCaller == "s1"

\* s.download_video()
DownloadVideo(s) ==
  /\ Quiet(Sessions)
  /\ hist.ndl < MaxDownloads
  /\ hist.ndl = 0 => s = FirstCaller
  /\ \E fp \in FailPoints, t \in Titles :
       LET r == download_video(sess[s], dirs, files, fp, t) IN
         /\ sess' = [sess EXCEPT ![s] = r.self]
         /\ dirs' = r.dirs
         /\ files' = r.files
         /\ last' = Tried(Ended(s, "download_video", Resolved(fp, t), fp,
                                r.exc, r.ret, FALSE,
                                Wrote(dirs, files, r.dirs, r.files)), r.tries)
         /\ hist' = [ndl |-> hist.ndl + 1,
                     acquired |-> IF r.exc = NoExc THEN hist.acquired \cup {s}
                                                   ELSE hist.acquired,
                     title |-> IF r.exc = NoExc
                                 THEN [hist.title EXCEPT ![s] = t]
                                 ELSE hist.title]
         /\ UNCHANGED task

\* what the environment does to an extraction call: the decoder executable
\* is missing, or it is launched and exits
DecoderEnvs == {"no_tool"} \cup Exits

\* the environments that matter to a call: one that raises before
\* subprocess.run even with the decoder installed meets none of them
EnvsMet(l) == IF l.launched THEN DecoderEnvs ELSE {"no_tool"}

\* the environment as far as the call met it: a call that raises before
\* subprocess.run has not met it
Consulted(exc, env) == IF exc.context = "FileNotFoundError" THEN env ELSE ""

\* an extract_audio that removes its output file when the decoder fails
ExtractAudioCleans(s) ==
  /\ Quiet(Sessions)
  /\ \E audio_filename \in AudioNames :
     \E env \in EnvsMet(extract_audio(sess[s], audio_filename, TRUE)) :
       LET l == extract_audio(sess[s], audio_filename, env # "no_tool")
           d == ffmpeg_audio(dirs, files, sess[s].video_filename, l.cmd, env)
           r == audio_result(d.status, l.cmd)
           kept == IF d.status = 0 THEN d.files
                   ELSE [q \in DOMAIN d.files \ {Norm(l.cmd)} |-> d.files[q]]
       IN  IF l.launched
             THEN /\ files' = kept
                  /\ last' = Tried(Ended(s, "extract_audio", <<audio_filename>>, env,
                                         r.exc, r.ret, TRUE,
                                         Wrote(dirs, files, dirs, kept)),
                                   Tries(0, 0, l.runs))
             ELSE /\ files' = files
                  /\ last' = Tried(Ended(s, "extract_audio", <<audio_filename>>,
                                         Consulted(l.exc, env), l.exc, None,
                                         FALSE, {}),
                                   Tries(0, 0, l.runs))
  /\ UNCHANGED <<sess, dirs, task, hist>>

\* s.extract_audio(audio_filename), the whole call
ExtractAudio(s) ==
  /\ Quiet(Sessions)
  /\ \E audio_filename \in AudioNames :
     \E env \in EnvsMet(extract_audio(sess[s], audio_filename, TRUE)) :
       LET l == extract_audio(sess[s], audio_filename, env # "no_tool")
           d == ffmpeg_audio(dirs, files, sess[s].video_filename, l.cmd, env)
           r == audio_result(d.status, l.cmd)
       IN  IF l.launched
             THEN /\ files' = d.files
                  /\ last' = Tried(Ended(s, "extract_audio", <<audio_filename>>, env,
                                         r.exc, r.ret, TRUE,
                                         Wrote(dirs, files, dirs, d.files)),
                                   Tries(0, 0, l.runs))
             ELSE /\ files' = files
                  /\ last' = Tried(Ended(s, "extract_audio", <<audio_filename>>,
                                         Consulted(l.exc, env), l.exc, None,
                                         FALSE, {}),
                                   Tries(0, 0, l.runs))
  /\ UNCHANGED <<sess, dirs, task, hist>>

\* an extract_frames that stores the pattern it built in self.frames_dir
ExtractFramesAssigns(s) ==
  /\ Quiet(Sessions)
  /\ \E image_prefix \in Prefixes, image_format \in Formats :
     \E env \in EnvsMet(extract_frames(sess[s], image_prefix, image_format, TRUE)) :
       LET l == extract_frames(sess[s], image_prefix, image_format, env # "no_tool")
           d == ffmpeg_frames(dirs, files, sess[s].video_filename, l.cmd,
                              image_prefix, image_format, env)
           r == frames_result(d.status, l.cmd)
           arg == << <<image_prefix, image_format>> >>
       IN  IF l.launched
             THEN /\ files' = d.files
                  /\ sess' = [sess EXCEPT ![s].frames_dir =
                               Join(l.cmd, <<image_prefix \o "%05d." \o image_format>>)]
                  /\ last' = Tried(Ended(s, "extract_frames", arg, env,
                                         r.exc, r.ret, TRUE,
                                         Wrote(dirs, files, dirs, d.files)),
                                   Tries(0, 0, l.runs))
             ELSE /\ files' = files
                  /\ sess' = sess
                  /\ last' = Tried(Ended(s, "extract_frames", arg,
                                         Consulted(l.exc, env), l.exc, None,
                                         FALSE, {}),
                                   Tries(0, 0, l.runs))
  /\ UNCHANGED <<dirs, task, hist>>

\* s.extract_frames(image_prefix, image_format), the whole call
ExtractFrames(s) ==
  /\ Quiet(Sessions)
  /\ \E image_prefix \in Prefixes, image_format \in Formats :
     \E env \in EnvsMet(extract_frames(sess[s], image_prefix, image_format, TRUE)) :
       LET l == extract_frames(sess[s], image_prefix, image_format, env # "no_tool")
           d == ffmpeg_frames(dirs, files, sess[s].video_filename, l.cmd,
                              image_prefix, image_format, env)
           r == frames_result(d.status, l.cmd)
           arg == << <<image_prefix, image_format>> >>
       IN  IF l.launched
             THEN /\ files' = d.files
                  /\ last' = Tried(Ended(s, "extract_frames", arg, env,
                                         r.exc, r.ret, TRUE,
                                         Wrote(dirs, files, dirs, d.files)),
                                   Tries(0, 0, l.runs))
             ELSE /\ files' = files
                  /\ last' = Tried(Ended(s, "extract_frames", arg,
                                         Consulted(l.exc, env), l.exc, None,
                                         FALSE, {}),
                                   Tries(0, 0, l.runs))
  /\ UNCHANGED <<sess, dirs, task, hist>>

Next ==
  \E s \in Sessions :
    \/ DownloadVideo(s)
    \/ ExtractAudio(s)
    \/ ExtractFrames(s)

\* one thread of control: each call runs to its end before the next starts
Spec == Init /\ [][Next]_vars

-----------------------------------------------------------------------------
(* The two extractions of a session as two tasks: each call is split at    *)
(* subprocess.run, where it blocks until the decoder exits.                *)

\* the session whose extractions run as tasks
TaskSessions == {"s1"}

\* s.extract_audio(audio_filename) up to the launch: the call ends here when
\* it raises, and blocks otherwise
StartAudio(s) ==
  /\ task[s]["extract_audio"].pc = "idle"
  /\ \E audio_filename \in AudioNames, tool \in BOOLEAN :
       LET l == extract_audio(sess[s], audio_filename, tool) IN
         IF l.launched
           THEN /\ task' = [task EXCEPT ![s]["extract_audio"] =
                              Running(sess[s].video_filename, l.cmd,
                                      <<audio_filename>>)]
                /\ last' = last
           ELSE /\ task' = task
                /\ last' = Tried(Ended(s, "extract_audio", <<audio_filename>>,
                                       Consulted(l.exc, "no_tool"), l.exc, None,
                                       FALSE, {}),
                                 Tries(0, 0, l.runs))
  /\ UNCHANGED <<sess, dirs, files, hist>>

\* the decoder of s.extract_audio exits and the call returns or raises
EndAudio(s) ==
  /\ task[s]["extract_audio"].pc = "running"
  /\ \E env \in Exits :
       LET c == task[s]["extract_audio"]
           d == ffmpeg_audio(dirs, files, c.input, c.cmd, env)
           r == audio_result(d.status, c.cmd)
       IN  /\ files' = d.files
           /\ last' = Tried(Ended(s, "extract_audio", c.arg, env, r.exc, r.ret,
                                  TRUE, Wrote(dirs, files, dirs, d.files)),
                            Tries(0, 0, 1))
  /\ task' = [task EXCEPT ![s]["extract_audio"] = Idle]
  /\ UNCHANGED <<sess, dirs, hist>>

\* s.extract_frames(image_prefix, image_format) up to the launch
StartFrames(s) ==
  /\ task[s]["extract_frames"].pc = "idle"
  /\ \E image_prefix \in Prefixes, image_format \in Formats, tool \in BOOLEAN :
       LET l == extract_frames(sess[s], image_prefix, image_format, tool)
           arg == << <<image_prefix, image_format>> >>
       IN  IF l.launched
             THEN /\ task' = [task EXCEPT ![s]["extract_frames"] =
                                Running(sess[s].video_filename, l.cmd, arg)]
                  /\ last' = last
             ELSE /\ task' = task
                  /\ last' = Tried(Ended(s, "extract_frames", arg,
                                         Consulted(l.exc, "no_tool"), l.exc, None,
                                         FALSE, {}),
                                   Tries(0, 0, l.runs))
  /\ UNCHANGED <<sess, dirs, files, hist>>

\* the decoder of s.extract_frames exits and the call returns or raises
EndFrames(s) ==
  /\ task[s]["extract_frames"].pc = "running"
  /\ \E env \in Exits :
       LET c == task[s]["extract_frames"]
           d == ffmpeg_frames(dirs, files, c.input, c.cmd,
                              c.arg[1][1], c.arg[1][2], env)
           r == frames_result(d.status, c.cmd)
       IN  /\ files' = d.files
           /\ last' = Tried(Ended(s, "extract_frames", c.arg, env, r.exc, r.ret,
                                  TRUE, Wrote(dirs, files, dirs, d.files)),
                            Tries(0, 0, 1))
  /\ task' = [task EXCEPT ![s]["extract_frames"] = Idle]
  /\ UNCHANGED <<sess, dirs, hist>>

NextTasks ==
  \E s \in TaskSessions :
    \/ DownloadVideo(s)
    \/ StartAudio(s)
    \/ EndAudio(s)
    \/ StartFrames(s)
    \/ EndFrames(s)

\* download_video runs alone; the two extractions of the session overlap
SpecTasks == Init /\ [][NextTasks]_vars

-----------------------------------------------------------------------------
(* _sanitize_filename on its own: a name is drawn, sanitized, and the      *)
(* result sanitized again; last.arg holds the name and last.ret the result *)

\* an alphanumeric character, two characters the sanitizer keeps, one it
\* removes, and a whitespace character other than the space
SanitizeAlphabet == {"a", " ", ".", "!", "\t"}

Names == UNION { [1..k -> SanitizeAlphabet] : k \in 0..MaxLen }

InitSanitize ==
  /\ sess = [s \in Sessions |-> __init__(UrlOf[s], DefaultBaseDir)]
  /\ dirs = makedirs({}, <<>>, Abspath(DefaultBaseDir), TRUE).dirs
  /\ files = <<>>
  /\ task = [s \in Sessions |-> [op \in Ops |-> Idle]]
  /\ hist = [ndl |-> 0, acquired |-> {}, title |-> [s \in Sessions |-> <<>>]]
  /\ \E name \in Names : last = [NoCall EXCEPT !.arg = <<name>>]

\* _sanitize_filename(name)
SanitizeFilename ==
  /\ last.op = ""
  /\ last' = [last EXCEPT !.op = "_sanitize_filename",
                          !.ret = _sanitize_filename(last.arg[1])]
  /\ UNCHANGED <<sess, dirs, files, task, hist>>

\* _sanitize_filename(the result of the call before)
SanitizeAgain ==
  /\ last.op = "_sanitize_filename"
  /\ ~last.again
  /\ last' = [last EXCEPT !.ret = _sanitize_filename(last.ret),
                          !.again = TRUE]
  /\ UNCHANGED <<sess, dirs, files, task, hist>>

NextSanitize == SanitizeFilename \/ SanitizeAgain

SpecSanitize == InitSanitize /\ [][NextSanitize]_vars

-----------------------------------------------------------------------------
(* Properties *)

\* the base directory of both sessions
Root == Abspath(DefaultBaseDir)

\* the session of the call that ended last
Self == sess[last.sess]

Returned(op) == last.op = op /\ last.exc = NoExc

Raised(op) == last.op = op /\ last.exc # NoExc

\* C1: an extraction call on a session whose video_filename is None raises
\* ValueError, launches no decoder, changes nothing on disk and leaves the
\* session fields as they were.
C1_PreconditionEnforced ==
  (last.op \in Ops /\ last.pre.video_filename = None) =>
    /\ last.exc.type = "ValueError"
    /\ ~last.launched
    /\ last.wrote = {}
    /\ Self = last.pre

\* both extractions have been refused, one of them on a session whose
\* download_video had failed
C1_Witness ==
  /\ last.op = "extract_frames"
  /\ last.pre.video_filename = None
  /\ last.pre.video_dir # None
  /\ last.exc.type = "ValueError"

\* C2: video_filename is set exactly on the sessions on which a
\* download_video call has returned, and a call that raises leaves it as
\* it was.
C2_SetIffAcquired ==
  /\ \A s \in Sessions : (sess[s].video_filename # None) <=> (s \in hist.acquired)
  /\ Raised("download_video") => Self.video_filename = last.pre.video_filename

\* C3: the decoder is launched only on a session on which a download_video
\* call has returned.
C3_LaunchAfterAcquisition ==
  last.launched => last.sess \in hist.acquired

\* where download_video fails before it has a title, and at line 102
BeforeTitle == {"YouTube", "streams", "title"}

AtDownload == {"no_stream", "download", "download_trunc"}

\* C4 as claimed: a download_video call that fails at resolution, stream
\* selection or during the download raises the acquisition error, leaves
\* video_filename as it was and has created no directory.
C4_NoDirectoryOnFailure ==
  (Raised("download_video") /\ last.env \in BeforeTitle \cup AtDownload) =>
    /\ last.exc.type = "CineNotesException"
    /\ Self.video_filename = last.pre.video_filename
    /\ last.wrote \cap dirs = {}

\* C4, amended: a call that fails before line 100 changes nothing; a call
\* that fails at line 102 (no stream, transfer, local write) leaves
\* video_filename, audio_dir and frames_dir as they were, but line 100 has
\* already created the video directory, and nothing but it.
C4_FailureLeaves ==
  /\ (Raised("download_video") /\ last.env \in BeforeTitle) =>
       /\ last.exc.type = "CineNotesException"
       /\ Self = last.pre
       /\ last.wrote = {}
  /\ (Raised("download_video") /\ last.env \in AtDownload) =>
       /\ last.exc.type = "CineNotesException"
       /\ Self = [last.pre EXCEPT !.video_dir = Self.video_dir]
       /\ Norm(Self.video_dir) \in dirs
       /\ last.wrote \cap dirs \subseteq Ancestors(Norm(Self.video_dir))

\* a transfer has failed and left the video directory it had just created
C4_Witness ==
  /\ Raised("download_video")
  /\ last.env = "download"
  /\ Norm(Self.video_dir) \in last.wrote
  /\ Self.video_filename = None

\* C5 as claimed: a download_video call that creates the video directory
\* has persisted the video file and leaves the audio and frames
\* directories beside it; extractions create no directory.
C5_CreatedTogether ==
  /\ (last.op = "download_video" /\ Norm(Self.video_dir) \in last.wrote) =>
       /\ Norm(Join(Self.video_dir, VideoName)) \in DOMAIN files
       /\ Norm(Join(Self.video_dir, AudioSub)) \in dirs
       /\ Norm(Join(Self.video_dir, FramesSub)) \in dirs
  /\ last.op \in Ops => last.wrote \cap dirs = {}

\* C5, amended: the video directory is created before the video file is
\* persisted; the audio and then the frames directory are created after
\* it, a call that returns leaves all three, and extractions create no
\* directory.
C5_AudioFramesAfterVideo ==
  /\ (last.op = "download_video" /\ Norm(Self.audio_dir) \in last.wrote) =>
       /\ Self.video_filename # None
       /\ Norm(Self.video_filename) \in DOMAIN files
       /\ files[Norm(Self.video_filename)].whole
       /\ Norm(Self.video_dir) \in dirs
  /\ (last.op = "download_video" /\ Norm(Self.frames_dir) \in last.wrote) =>
       Norm(Self.audio_dir) \in dirs
  /\ Returned("download_video") =>
       {Norm(Self.video_dir), Norm(Self.audio_dir), Norm(Self.frames_dir)}
         \subseteq dirs
  /\ last.op \in Ops => last.wrote \cap dirs = {}

\* a call has created the video and the audio directory and failed on the
\* frames directory
C5_Witness ==
  /\ Raised("download_video")
  /\ last.env = "makedirs_frames"
  /\ {Norm(Self.video_dir), Norm(Self.audio_dir)} \subseteq last.wrote
  /\ Norm(Self.frames_dir) \notin dirs

\* the layout of title t under the root
VideoDir(t) == Join(Root, _sanitize_filename(t))

Layout(t) ==
  [video_dir |-> VideoDir(t),
   video_filename |-> Join(VideoDir(t), VideoName),
   audio_dir |-> Join(VideoDir(t), AudioSub),
   frames_dir |-> Join(VideoDir(t), FramesSub)]

HasLayout(self, t) ==
  /\ self.video_dir = Layout(t).video_dir
  /\ self.video_filename = Layout(t).video_filename
  /\ self.audio_dir = Layout(t).audio_dir
  /\ self.frames_dir = Layout(t).frames_dir

LayoutDirs(t) ==
  {Norm(Layout(t).video_dir), Norm(Layout(t).audio_dir), Norm(Layout(t).frames_dir)}

\* C6: a download_video call that returns for title t leaves the four
\* fields at root/sanitize(t) and below, with the three directories on
\* disk, and returns video_filename; an extraction leaves the fields as
\* they are, extract_audio() returns audio_dir/audio.wav and
\* extract_frames() returns frames_dir.
C6_Layout ==
  /\ Returned("download_video") =>
       /\ HasLayout(Self, last.arg[1])
       /\ LayoutDirs(last.arg[1]) \subseteq dirs
       /\ last.ret = Self.video_filename
  /\ last.op \in Ops => Self = last.pre
  /\ (Returned("extract_audio") /\ last.arg = <<DefaultAudioName>>) =>
       /\ last.ret = Append(Self.audio_dir, DefaultAudioName)
       /\ Norm(last.ret) \in DOMAIN files
  /\ Returned("extract_frames") => last.ret = Self.frames_dir

\* extract_audio() has returned on a session acquired for a title with
\* characters to remove
C6_Witness ==
  /\ Returned("extract_audio")
  /\ last.arg = <<DefaultAudioName>>
  /\ HasLayout(Self, <<" ", "a", "!">>)
  /\ Self.audio_dir = << <<"w">>, <<"output_videos">>, <<"a">>, <<"audio">> >>
  /\ files[Norm(Self.video_filename)].title = <<" ", "a", "!">>

\* C7: a download_video call that the environment does not fail, for a
\* title whose video, audio and frames directories exist already, returns
\* with the fields of the first run and creates no directory.
C7_Rerun ==
  (/\ last.op = "download_video"
   /\ last.env = "none"
   /\ LayoutDirs(last.arg[1]) \subseteq dirs \ last.wrote) =>
    /\ last.exc = NoExc
    /\ HasLayout(Self, last.arg[1])
    /\ last.wrote \cap dirs = {}

\* a second session has run download_video for the title the first session
\* had acquired, and a session has run it a second time
C7_Witness ==
  /\ Returned("download_video")
  /\ LayoutDirs(last.arg[1]) \subseteq dirs \ last.wrote
  /\ \A s \in Sessions : HasLayout(sess[s], last.arg[1])
  /\ last.pre.video_filename = None

\* what an extraction call of self with the default arguments writes to
AudioPath(self) == Append(self.audio_dir, DefaultAudioName)

\* a decoder that exits with status 0 can run for self
CanAudio(self) == Decodable(dirs, files, self.video_filename, self.audio_dir)

CanFrames(self) == Decodable(dirs, files, self.video_filename, self.frames_dir)

\* C8: an extraction call on a session with a video leaves the fields as
\* they were, the precondition of both extractions still passes and a
\* decoder that exits with status 0 still makes each of them return; a call
\* that repeats the returned call before it returns the same path and
\* changes no file.
C8_Repeatable ==
  /\ (last.op \in Ops /\ last.pre.video_filename # None) =>
       /\ Self = last.pre
       /\ extract_audio(Self, DefaultAudioName, TRUE).launched
       /\ extract_frames(Self, DefaultPrefix, DefaultFormat, TRUE).launched
       /\ CanAudio(last.pre) =>
            ffmpeg_audio(dirs, files, Self.video_filename, AudioPath(Self),
                         "exit_0").status = 0
       /\ CanFrames(last.pre) =>
            ffmpeg_frames(dirs, files, Self.video_filename, Self.frames_dir,
                          DefaultPrefix, DefaultFormat, "exit_0").status = 0
  /\ (last.again /\ Returned("extract_audio")) =>
       /\ last.wrote = {}
       /\ last.ret = Append(Self.audio_dir, last.arg[1])
  /\ (last.again /\ Returned("extract_frames")) =>
       /\ last.wrote = {}
       /\ last.ret = Self.frames_dir

\* extract_frames has returned twice in a row, after an extract_audio that
\* had left its file
C8_Witness ==
  /\ last.again
  /\ Returned("extract_frames")
  /\ Norm(AudioPath(Self)) \in DOMAIN files
  /\ CanAudio(Self)

\* the paths below directory d
Below(d) == {p \in dirs \cup DOMAIN files : Len(p) > Len(d) /\ SubSeq(p, 1, Len(d)) = d}

\* what the two extractions of self, run with their default arguments one
\* after the other from files F, leave
AudioThenFrames(self, F, ea, ef) ==
  ffmpeg_frames(dirs,
                ffmpeg_audio(dirs, F, self.video_filename, AudioPath(self), ea).files,
                self.video_filename, self.frames_dir, DefaultPrefix, DefaultFormat, ef)

FramesThenAudio(self, F, ea, ef) ==
  ffmpeg_audio(dirs,
               ffmpeg_frames(dirs, F, self.video_filename, self.frames_dir,
                             DefaultPrefix, DefaultFormat, ef).files,
               self.video_filename, AudioPath(self), ea)

\* C9: with the default arguments extract_audio changes paths below
\* audio_dir only and extract_frames paths below frames_dir only, neither
\* being the video file, and neither changes a session field; from every
\* state, also one in which the other task is running, the two decoders in
\* either order leave the same files, and each ends with the status it has
\* when run alone.
C9_Independent ==
  /\ (last.op = "extract_audio" /\ last.arg = <<DefaultAudioName>>) =>
       /\ last.wrote \subseteq Below(Norm(Self.audio_dir))
       /\ last.wrote \cap Below(Norm(Self.frames_dir)) = {}
       /\ Norm(Self.video_filename) \notin last.wrote
       /\ Self = last.pre
  /\ last.op = "extract_frames" =>
       /\ last.wrote \subseteq Below(Norm(Self.frames_dir))
       /\ last.wrote \cap Below(Norm(Self.audio_dir)) = {}
       /\ Norm(Self.video_filename) \notin last.wrote
       /\ Self = last.pre
  /\ \A s \in TaskSessions : sess[s].video_filename # None =>
       \A ea \in Exits, ef \in Exits :
         LET af == AudioThenFrames(sess[s], files, ea, ef)
             fa == FramesThenAudio(sess[s], files, ea, ef)
         IN  /\ af.files = fa.files
             /\ af.status = ffmpeg_frames(dirs, files, sess[s].video_filename,
                                          sess[s].frames_dir, DefaultPrefix,
                                          DefaultFormat, ef).status
             /\ fa.status = ffmpeg_audio(dirs, files, sess[s].video_filename,
                                         AudioPath(sess[s]), ea).status

\* extract_audio() has returned, having written its file, while the decoder
\* of extract_frames was running, and extract_frames had failed before
C9_Witness ==
  /\ Returned("extract_audio")
  /\ last.arg = <<DefaultAudioName>>
  /\ last.wrote # {}
  /\ task[last.sess]["extract_frames"].pc = "running"

\* the type, the message and the line an exception shows to its handler
Surfaced(e) == [type |-> e.type, message |-> e.message, lineno |-> e.lineno]

\* what each extraction raises when the decoder exits with a non-zero status
NonZeroExit(op) ==
  IF op = "extract_audio" THEN audio_result(1, None).exc
                          ELSE frames_result(1, None).exc

\* C10 as claimed: the error of an extraction call that could not launch
\* the decoder differs, in what its handler sees, from the error of a
\* decoder that exits with a non-zero status.
C10_ToolErrorDistinct ==
  (last.op \in Ops /\ last.env = "no_tool") =>
    Surfaced(last.exc) # Surfaced(NonZeroExit(last.op))

\* C10, amended: both failures surface as CineNotesException with the same
\* message and the same line; they differ only in the exception chained as
\* __context__, and both differ from the precondition error.
C10_ToolErrorSame ==
  (last.op \in Ops /\ last.env = "no_tool") =>
    /\ last.exc.type = "CineNotesException"
    /\ Surfaced(last.exc) = Surfaced(NonZeroExit(last.op))
    /\ last.exc.context = "FileNotFoundError"
    /\ NonZeroExit(last.op).context = "CalledProcessError"
    /\ ~last.launched
    /\ last.wrote = {}

\* an extraction could not launch the decoder
C10_Witness ==
  /\ last.op = "extract_audio"
  /\ last.env = "no_tool"
  /\ last.exc # NoExc
  /\ last.pre.video_filename # None

\* C11: an extraction call raises ValueError only on a session whose
\* video_filename is None; every failure after the precondition has passed
\* reaches the caller as CineNotesException.
C11_ValueErrorOnlyUnacquired ==
  /\ (last.op \in Ops /\ last.exc.type = "ValueError") =>
       last.pre.video_filename = None
  /\ (last.op \in Ops /\ last.exc # NoExc /\ last.pre.video_filename # None) =>
       last.exc.type = "CineNotesException"

\* the environments in which an extraction cannot succeed
DecoderFails == {"no_tool", "exit_1", "exit_1_trunc"}

\* C12: every call ends either with a returned path and no exception or
\* with an exception and no path; a path that is returned names what the
\* call produced; a call that the environment fails (a failing step of
\* download_video, a decoder that is missing or exits with a non-zero
\* status) raises.
C12_ReturnOrRaise ==
  /\ last.op # "" => ((last.exc = NoExc) <=> (last.ret # None))
  /\ Returned("download_video") =>
       /\ last.env = "none"
       /\ Norm(last.ret) \in DOMAIN files
       /\ files[Norm(last.ret)].whole
  /\ Returned("extract_audio") =>
       /\ last.env = "exit_0"
       /\ Norm(last.ret) \in DOMAIN files
       /\ files[Norm(last.ret)].whole
  /\ Returned("extract_frames") =>
       /\ last.env = "exit_0"
       /\ Norm(last.ret) \in dirs
  /\ (last.op = "download_video" /\ last.env # "none") =>
       last.exc.type = "CineNotesException"
  /\ (last.op \in Ops /\ last.env \in DecoderFails) =>
       last.exc.type = "CineNotesException"

\* a decoder that had been launched exited with a non-zero status after
\* writing part of its output, and the call raised
C12_Witness ==
  /\ Raised("extract_audio")
  /\ last.launched
  /\ last.env = "exit_1_trunc"
  /\ last.wrote # {}
  /\ last.ret = None

\* C13: a download_video call resolves the URL once and makes at most one
\* transfer, none when it fails before line 102; an extraction call runs
\* subprocess.run at most once; a call whose one attempt fails raises.
C13_NoRetry ==
  /\ last.op = "download_video" =>
       /\ last.tries.resolve = 1
       /\ last.tries.download <= 1
       /\ last.tries.launch = 0
       /\ last.env \in BeforeTitle \cup {"makedirs_video", "no_stream"} =>
            last.tries.download = 0 /\ last.exc # NoExc
       /\ last.env \in {"download", "download_trunc"} => last.exc # NoExc
  /\ last.op \in Ops =>
       /\ last.tries.resolve = 0
       /\ last.tries.download = 0
       /\ last.tries.launch <= 1
       /\ last.launched => last.tries.launch = 1
       /\ last.env \in DecoderFails => last.exc # NoExc

\* a transfer failed: the call made that one transfer and raised
C13_Witness ==
  /\ Raised("download_video")
  /\ last.env = "download_trunc"
  /\ last.tries.download = 1
  /\ last.wrote # {}

\* the type and the message of an exception: what a handler can select on
Kind(e) == [type |-> e.type, message |-> e.message]

\* what download_video raises when the provider cannot resolve the URL
ResolutionError == DownloadFailed(94, Cause.YouTube)

\* C14: whatever fails inside download_video (resolution, stream selection,
\* no stream, the transfer, a local write, a directory), the call raises
\* CineNotesException with the message "Failed to download video", the
\* type and message it raises for a resolution failure; the statement that
\* failed shows only in the reported line and the chained cause.
C14_OneAcquisitionError ==
  /\ (last.op = "download_video" /\ last.env # "none") => last.exc # NoExc
  /\ Raised("download_video") =>
       /\ last.exc.type = "CineNotesException"
       /\ last.exc.message = "Failed to download video"
       /\ Kind(last.exc) = Kind(ResolutionError)

\* get_highest_resolution() returned None and line 102 failed with an
\* AttributeError, which reached the caller as CineNotesException
C14_Witness ==
  /\ Raised("download_video")
  /\ last.env = "no_stream"
  /\ last.exc.context = "AttributeError"
  /\ last.exc.type = "CineNotesException"

\* the os.makedirs calls of download_video, as CineNotesException reports them
MakedirsLines == {100 - CellFirstLine + 1, 107 - CellFirstLine + 1, 108 - CellFirstLine + 1}

\* a download_video call failed in os.makedirs
MakedirsFailed ==
  /\ Raised("download_video")
  /\ last.exc.context = "OSError"
  /\ last.exc.lineno \in MakedirsLines

\* C15 as claimed: a directory-creation failure in download_video reaches
\* the caller as an error whose type or message differs from that of an
\* acquisition failure.
C15_FilesystemErrorDistinct ==
  MakedirsFailed => Kind(last.exc) # Kind(ResolutionError)

\* C15, amended: a directory-creation failure in download_video reaches the
\* caller as CineNotesException "Failed to download video", the type and
\* message of an acquisition failure; it differs from one only in the
\* chained OSError and the reported line.
C15_FilesystemErrorSame ==
  /\ (last.op = "download_video"
      /\ last.env \in {"makedirs_video", "makedirs_audio", "makedirs_frames"}) =>
       MakedirsFailed
  /\ MakedirsFailed =>
       /\ Kind(last.exc) = Kind(ResolutionError)
       /\ last.exc.context # ResolutionError.context
       /\ last.exc.lineno # ResolutionError.lineno

\* os.makedirs failed on the video directory
C15_Witness ==
  /\ MakedirsFailed
  /\ last.env = "makedirs_video"
  /\ last.wrote = {}

\* the files in the frames directory of self
FramesIn(self) == {p \in DOMAIN files : Parent(p) = Norm(self.frames_dir)}

\* the frame files of the video of self: frame_00001 .. frame_N
FramesOf(self) ==
  { Norm(Join(self.frames_dir, FrameName(DefaultPrefix, DefaultFormat, i))) :
      i \in 1..files[Norm(self.video_filename)].n }

\* C16: after an extract_frames call that returns, the frames directory
\* holds exactly the files frame_00001 .. frame_N of the session's video.
C16_ExactFrames ==
  Returned("extract_frames") => FramesIn(Self) = FramesOf(Self)

\* path p is directory d or lies below it
Within(p, d) == Len(p) >= Len(d) /\ SubSeq(p, 1, Len(d)) = d

\* C17: every path a call creates or writes lies below the root, and for a
\* download_video call that resolved title t, in root/sanitize(t).
C17_UnderRoot ==
  /\ \A p \in last.wrote : p # Root /\ Within(p, Root)
  /\ (last.op = "download_video" /\ last.arg # <<>>) =>
       \A p \in last.wrote : Within(p, Norm(VideoDir(last.arg[1])))

\* session u holds the layout of the title it acquired last, and that
\* title differs from t but sanitizes to the same string
Collides(u, t) ==
  /\ hist.title[u] # <<>>
  /\ hist.title[u] # t
  /\ _sanitize_filename(hist.title[u]) = _sanitize_filename(t)
  /\ HasLayout(sess[u], hist.title[u])

\* C18: a download_video call of one session for a title that collides with
\* the title another session u has acquired is not failed by the collision;
\* when it returns, the two sessions have the same video_dir,
\* video_filename, audio_dir and frames_dir, the file u's video_filename
\* names is the video of the new title; an extraction of a session that
\* holds the layout it acquired writes below the audio or frames directory
\* of every session that holds the same layout.
C18_SharedDirectory ==
  \A u \in Sessions :
    /\ (/\ last.op = "download_video"
        /\ last.arg # <<>>
        /\ u # last.sess
        /\ Collides(u, last.arg[1])) =>
         /\ last.env = "none" => last.exc = NoExc
         /\ last.exc = NoExc =>
              /\ Self.video_dir = sess[u].video_dir
              /\ Self.video_filename = sess[u].video_filename
              /\ Self.audio_dir = sess[u].audio_dir
              /\ Self.frames_dir = sess[u].frames_dir
              /\ files[Norm(sess[u].video_filename)] = Video(last.arg[1])
    /\ (/\ last.op \in Ops
        /\ last.sess \in hist.acquired
        /\ u \in hist.acquired
        /\ Self.video_dir = sess[u].video_dir
        /\ HasLayout(Self, hist.title[last.sess])
        /\ HasLayout(sess[u], hist.title[u])) =>
         last.wrote \subseteq
           Below(Norm(sess[u].audio_dir)) \cup Below(Norm(sess[u].frames_dir))

\* the second session has acquired " a!" over the "a" of the first
C18_Witness ==
  /\ Returned("download_video")
  /\ last.arg = << <<" ", "a", "!">> >>
  /\ \E u \in Sessions \ {last.sess} :
       /\ hist.title[u] = <<"a">>
       /\ Collides(u, last.arg[1])
       /\ sess[u].video_filename = Self.video_filename
       /\ files[Norm(sess[u].video_filename)].title = <<" ", "a", "!">>

\* the frame files a decoder that fails part-way has written for self
PartialFrames(self, F) ==
  { Norm(Join(self.frames_dir, FrameName(DefaultPrefix, DefaultFormat, i))) :
      i \in 1..(F[Norm(self.video_filename)].n - 1) }

\* C19: a step in which an extraction call raises leaves the session fields
\* and the directories as they were, removes no file and changes no file
\* but those the decoder wrote; the truncated audio file, and the frames
\* written before the failure, are at the destination afterwards, and the
\* precondition of the session still passes; a step in which the call
\* returns leaves the whole audio file, and every frame of the video whole.
C19_NoCleanup ==
  [][ (hist' = hist /\ last'.op \in Ops) =>
        LET self == sess[last'.sess] IN
          /\ sess' = sess
          /\ dirs' = dirs
          /\ DOMAIN files \subseteq DOMAIN files'
          /\ \A p \in DOMAIN files \ last'.wrote : files'[p] = files[p]
          /\ (last'.exc # NoExc /\ last'.pre.video_filename # None) =>
               /\ self.video_filename # None
               /\ extract_audio(self, DefaultAudioName, TRUE).launched
               /\ extract_frames(self, DefaultPrefix, DefaultFormat, TRUE).launched
          /\ (last'.exc # NoExc /\ last'.launched /\ last'.env = "exit_1_trunc") =>
               /\ (last'.op = "extract_audio" /\ CanAudio(self)) =>
                    /\ Norm(Join(self.audio_dir, last'.arg[1])) \in DOMAIN files'
                    /\ ~files'[Norm(Join(self.audio_dir, last'.arg[1]))].whole
               /\ (last'.op = "extract_frames" /\ CanFrames(self)) =>
                    PartialFrames(self, files) \subseteq DOMAIN files'
          /\ (last'.exc = NoExc /\ last'.op = "extract_audio") =>
               files'[Norm(last'.ret)].whole
          /\ (last'.exc = NoExc /\ last'.op = "extract_frames") =>
               \A p \in FramesOf(self) : p \in DOMAIN files' /\ files'[p].whole
    ]_vars

\* a decoder has failed after writing part of the audio file, which is
\* there, and the session still has its video
C19_Witness ==
  /\ Raised("extract_audio")
  /\ last.launched
  /\ last.env = "exit_1_trunc"
  /\ Norm(AudioPath(Self)) \in last.wrote
  /\ ~files[Norm(AudioPath(Self))].whole
  /\ Self = last.pre
  /\ last.sess \in hist.acquired

\* C20: sanitizing the result of _sanitize_filename(x) gives that result
\* again, for every name x of at most MaxLen characters.
C20_Idempotent ==
  (last.op = "_sanitize_filename" /\ last.again) =>
    last.ret = _sanitize_filename(last.arg[1])

\* a name that loses a character and then a space has been sanitized twice
C20_Witness ==
  /\ last.op = "_sanitize_filename"
  /\ last.again
  /\ last.arg = << <<"!", " ", "a">> >>
  /\ last.ret = <<"a">>

\* the positions of name whose character the sanitizer may keep
KeptAt(name) == {i \in 1..Len(name) : name[i] \in Alnum \cup Kept}

\* the positions of name that hold an allowed character other than
\* whitespace: the result runs from the first to the last of them
Solid(name) == {i \in KeptAt(name) : name[i] \notin Whitespace}

\* r is name restricted to the allowed characters at the positions from lo
\* to hi, in their order
IsRestriction(r, name, lo, hi) ==
  LET P == {i \in KeptAt(name) : lo <= i /\ i <= hi} IN
    /\ Len(r) = Cardinality(P)
    /\ \A i \in P : r[Cardinality({j \in P : j <= i})] = name[i]

\* C21: _sanitize_filename(x) is x without the characters that are neither
\* alphanumeric nor one of ' ', '.', '_', '-', in their order, from the
\* first to the last allowed character that is not whitespace; every
\* character of it is allowed, it neither starts nor ends with whitespace,
\* and it is empty when x has no allowed character other than whitespace.
C21_SanitizedForm ==
  (last.op = "_sanitize_filename" /\ ~last.again) =>
    LET x == last.arg[1]
        r == last.ret
    IN  /\ \A i \in 1..Len(r) : r[i] \in Alnum \cup Kept
        /\ r # <<>> => (r[1] \notin Whitespace /\ r[Len(r)] \notin Whitespace)
        /\ Solid(x) = {} => r = <<>>
        /\ Solid(x) # {} =>
             IsRestriction(r, x,
                           CHOOSE i \in Solid(x) : \A j \in Solid(x) : i <= j,
                           CHOOSE i \in Solid(x) : \A j \in Solid(x) : j <= i)

\* a name with a kept character, a removed one and a space at its end
\* has been sanitized
C21_Witness ==
  /\ last.op = "_sanitize_filename"
  /\ ~last.again
  /\ last.arg = << <<".", "!", " ">> >>
  /\ last.ret = <<".">>

\* the fields the constructor sets and no method assigns
Immutable(self) == <<self.youtube_url, self.output_base_dir>>

\* C22: no operation changes youtube_url or output_base_dir of any session,
\* and an extract_audio or extract_frames call that has ended, returning or
\* raising, has left every field of its session as it was at its entry.
C22_FieldsFramed ==
  /\ \A s \in Sessions : Immutable(sess[s]) = <<UrlOf[s], Root>>
  /\ last.op \in {"download_video"} =>
       Immutable(Self) = Immutable(last.pre)
  /\ last.op \in {"extract_audio", "extract_frames"} => Self = last.pre

\* on an acquired session an extraction has launched the decoder and
\* returned, and a download_video call had set the fields before it
C22_Witness ==
  /\ Returned("extract_frames")
  /\ last.launched
  /\ last.wrote # {}
  /\ last.pre.video_filename # None
  /\ last.pre.frames_dir = Join(last.pre.video_dir, FramesSub)
  /\ Self = last.pre

\* lines 99, 102, 105-106: the three paths download_video derives from
\* video_dir
Derived(video_dir) ==
  [video_filename |-> Join(video_dir, VideoName),
   audio_dir |-> Join(video_dir, AudioSub),
   frames_dir |-> Join(video_dir, FramesSub)]

\* C23: between operations, a session whose video_filename is set has
\* video_filename = video_dir/video.mp4, audio_dir = video_dir/audio and
\* frames_dir = video_dir/frames, also after a later download_video call
\* that resolved another title and failed.
C23_PathsConsistent ==
  \A s \in Sessions :
    sess[s].video_filename # None =>
      /\ sess[s].video_filename = Derived(sess[s].video_dir).video_filename
      /\ sess[s].audio_dir = Derived(sess[s].video_dir).audio_dir
      /\ sess[s].frames_dir = Derived(sess[s].video_dir).frames_dir

\* C24: a session whose video_filename is set has audio_dir and frames_dir
\* set and both directories on disk, and a decoder that is launched writes
\* into a directory that exists.
C24_DirectoriesReady ==
  /\ \A s \in Sessions :
       sess[s].video_filename # None =>
         /\ sess[s].audio_dir # None
         /\ sess[s].frames_dir # None
         /\ Norm(sess[s].audio_dir) \in dirs
         /\ Norm(sess[s].frames_dir) \in dirs
  /\ (last.op = "extract_audio" /\ last.launched) => Norm(Self.audio_dir) \in dirs
  /\ (last.op = "extract_frames" /\ last.launched) => Norm(Self.frames_dir) \in dirs

\* C25: no operation sets a video_filename that was set back to None, and
\* a download_video call that raises on a session whose video_filename was
\* set leaves it naming the file it named.
C25_Monotonic ==
  /\ (last.op # "" /\ last.pre.video_filename # None) =>
       Self.video_filename # None
  /\ (last.op = "download_video" /\ last.exc # NoExc
        /\ last.pre.video_filename # None) =>
       Self.video_filename = last.pre.video_filename

=============================================================================
